---- MODULE Spec2Model ----
(***************************************************************************)
(* A model of the post reaction bot (src/bot.py): the in-memory registry   *)
(* context.bot_data["post_reactions"] / ["post_meta"], the media group     *)
(* ledger processed_media_groups, and the two update handlers              *)
(* add_reaction_buttons and handle_callback, each cut into the blocks of   *)
(* code that run between two await points of the asyncio event loop.       *)
(***************************************************************************)
EXTENDS Integers, Sequences, FiniteSets, TLC

None == "None"

(***************************************************************************)
(* The fixed reaction list (bot.py line 28).  The emoji are written by     *)
(* name.  LegacySymbol is a symbol that is not in REACTIONS but still sits *)
(* on a button of a message sent by an earlier deployment of the bot.      *)
(***************************************************************************)
REACTIONS == <<"thumbs_up", "thumbs_down", "fire", "heart">>

FixedSymbols == {REACTIONS[i] : i \in 1..Len(REACTIONS)}

LegacySymbol == "party"

\* the buttons the voters press: the first MaxPressed of the fixed ones and
\* the legacy one
MaxPressed == 2

ButtonSymbols == {REACTIONS[i] : i \in 1..MaxPressed} \cup {LegacySymbol}

(***************************************************************************)
(* Inputs.  Chats are a channel and a group (negative ids, as Telegram     *)
(* gives them); users are the ids of the voters.                           *)
(***************************************************************************)
ChannelChats == {-11}

GroupChats == {-22}

Chats == ChannelChats \cup GroupChats

MsgIds == {1}

Users == {1, 2}

NumLinks == 2

PostLinks == 1..NumLinks

MaxGroupId == 1

\* media_group_id: NoMediaGroup is the None of a post that is no album part
MediaGroups == {<<g>> : g \in 1..MaxGroupId}

NoMediaGroup == <<>>

\* the album among the posts that the handlers of the whole bot are run on
OneMediaGroup == <<1>>

\* the None of a url
NoUrl == <<>>

(***************************************************************************)
(* key = f"{chat_id}_{message_id}": str() of an int is its sign and its    *)
(* decimal digits; a key is the sequence of its characters.                *)
(***************************************************************************)
DigitChars == <<"0", "1", "2", "3", "4", "5", "6", "7", "8", "9">>

RECURSIVE NatStr(_)
NatStr(n) ==
    IF n < 10 THEN <<DigitChars[n + 1]>>
    ELSE NatStr(n \div 10) \o <<DigitChars[(n % 10) + 1]>>

IntStr(n) == IF n < 0 THEN <<"-">> \o NatStr(0 - n) ELSE NatStr(n)

PostKey(chat_id, message_id) == IntStr(chat_id) \o <<"_">> \o IntStr(message_id)

LiveKeys == {PostKey(c, m) : c \in Chats, m \in MsgIds}

(***************************************************************************)
(* {emoji: set() for emoji in REACTIONS}                                   *)
(***************************************************************************)
EmptyVoteSet == [emoji \in FixedSymbols |-> {}]

VARIABLES
    post_reactions,          \* bot_data["post_reactions"]: key -> (emoji -> set of user ids)
    post_meta,               \* bot_data["post_meta"]: key -> [share_url, comment_url]
    processed_media_groups,  \* the deque of media group ids, oldest first
    tasks,                   \* handler coroutines: task -> its position and locals
    running,                 \* the task the event loop is executing, 0 when it is free
    created,                 \* history: key -> number of VoteSets created for it
    vote_log,                \* history: the last two votes, oldest first (when kept)
    file,                    \* bot_data.pickle: NoFile, Corrupt, or the pickled bot_data
    boot,                    \* main: position, outcome of prune_bot_data, file before it
    reg_log,                 \* history of the registration path (when kept)
    markup                   \* the arguments and result of a get_keyboard call (when kept)

vars ==
    <<post_reactions, post_meta, processed_media_groups, tasks, running, created,
      vote_log, file, boot, reg_log, markup>>

\* no bot_data.pickle on disk (line 325), and a file that does not unpickle
FileOf(kind) == [kind |-> kind, order |-> <<>>, reactions |-> <<>>, meta |-> <<>>]

NoFile == FileOf("missing")

Corrupt == FileOf("corrupt")

\* main has passed lines 397-419 with no file on disk: the bot is polling
Booted == [pc |-> "polling", io |-> "none", before |-> NoFile, ids |-> <<>>]

\* no registration seen yet: the event in flight, the last event, the ids
\* by last sighting and by admission to the ledger, the groups registered
NoRegLog ==
    [events |-> 0, group |-> <<>>, last |-> [group |-> <<>>, resident |-> FALSE],
     recency |-> <<>>, admitted |-> <<>>, registered |-> {}, creations |-> <<>>]

NoMarkup == [called |-> FALSE, reactions_data |-> <<>>, share_url |-> <<>>,
             comment_url |-> <<>>, rows |-> <<>>]

Idle ==
    [pc |-> "idle", chat |-> None, key |-> None, user |-> None, sel |-> None,
     meta |-> None, missing |-> FALSE, before |-> None, note |-> None]

\* mutant: an await between the removal loop and the toggle
YieldsBeforeToggle(pc) ==
    pc \in {"await_edit_text", "await_reply", "await_markup", "await_info",
            "await_other", "await_answer", "await_edit", "raised", "idle", "toggle"}

\* mutant: an await between the test of line 221 and the creation of line 222
YieldsBeforeCreate(pc) ==
    pc \in {"await_edit_text", "await_reply", "await_markup", "await_info",
            "await_other", "await_answer", "await_edit", "raised", "idle", "create"}

(***************************************************************************)
(* The positions at which a handler awaits: the event loop may run another *)
(* handler there and nowhere else (bot.py lines 185/187, 202, 232, 251,    *)
(* 256, 308, 314; a handler that returned or raised has left the loop).    *)
(***************************************************************************)
Yields(pc) ==
    pc \in {"await_edit_text", "await_reply", "await_markup", "await_info",
            "await_other", "await_answer", "await_edit", "raised", "idle"}

Release(t, pc) == IF Yields(pc) THEN 0 ELSE t

\* handlers run once run_polling (line 419) is up; a task takes a step when
\* it holds the event loop, or when the loop is free and the task is at a
\* position where it gave the loop up
CanRun(t) ==
    /\ boot.pc = "polling"
    /\ running = t \/ (running = 0 /\ Yields(tasks[t].pc))

Put(f, k, v) == [x \in DOMAIN f \cup {k} |-> IF x = k THEN v ELSE f[x]]

Init ==
    /\ post_reactions = [k \in {} |-> EmptyVoteSet]
    /\ post_meta = [k \in {} |-> None]
    /\ processed_media_groups = <<>>
    /\ tasks = [t \in {1} |-> Idle]
    /\ running = 0
    /\ created = [k \in LiveKeys |-> 0]
    /\ vote_log = <<>>
    /\ file = NoFile
    /\ boot = Booted
    /\ reg_log = NoRegLog
    /\ markup = NoMarkup

(***************************************************************************)
(* handle_callback                                                         *)
(***************************************************************************)
\* query.data, cut at "|" as data.split("|") cuts it
CallbackData ==
    {<<"info">>, <<"noop">>} \cup {<<"reaction", s>> : s \in ButtonSymbols}

\* mutant: the loop removes nothing
RemoveFromOthersSkipped(reactions_map, user_id, selected_emoji) == reactions_map

\* mutant: the loop empties the other sets instead of removing the one user
RemoveFromOthersClears(reactions_map, user_id, selected_emoji) ==
    [emoji \in DOMAIN reactions_map |->
        IF emoji # selected_emoji /\ user_id \in reactions_map[emoji]
        THEN {}
        ELSE reactions_map[emoji]]

\* lines 296-298: remove the user from every set but the selected one
RemoveFromOthers(reactions_map, user_id, selected_emoji) ==
    [emoji \in DOMAIN reactions_map |->
        IF emoji # selected_emoji /\ user_id \in reactions_map[emoji]
        THEN reactions_map[emoji] \ {user_id}
        ELSE reactions_map[emoji]]

\* mutant: a second press of the selected symbol leaves the user in its set
ToggleSelectedNeverRemoves(reactions_map, user_id, selected_emoji) ==
    IF selected_emoji \notin DOMAIN reactions_map
    THEN [raised |-> TRUE, map |-> reactions_map, note |-> <<"KeyError", selected_emoji>>]
    ELSE [raised |-> FALSE,
          map |-> [reactions_map EXCEPT ![selected_emoji] = @ \cup {user_id}],
          note |-> <<"Added", selected_emoji>>]

\* mutant: the two confirmation texts are exchanged
ToggleSelectedSwapsText(reactions_map, user_id, selected_emoji) ==
    IF selected_emoji \notin DOMAIN reactions_map
    THEN [raised |-> TRUE, map |-> reactions_map, note |-> <<"KeyError", selected_emoji>>]
    ELSE IF user_id \in reactions_map[selected_emoji]
    THEN [raised |-> FALSE,
          map |-> [reactions_map EXCEPT ![selected_emoji] = @ \ {user_id}],
          note |-> <<"Added", selected_emoji>>]
    ELSE [raised |-> FALSE,
          map |-> [reactions_map EXCEPT ![selected_emoji] = @ \cup {user_id}],
          note |-> <<"Removed", selected_emoji>>]

\* mutant: an added vote replaces the votes the selected set held
ToggleSelectedResets(reactions_map, user_id, selected_emoji) ==
    IF selected_emoji \notin DOMAIN reactions_map
    THEN [raised |-> TRUE, map |-> reactions_map, note |-> <<"KeyError", selected_emoji>>]
    ELSE IF user_id \in reactions_map[selected_emoji]
    THEN [raised |-> FALSE,
          map |-> [reactions_map EXCEPT ![selected_emoji] = @ \ {user_id}],
          note |-> <<"Removed", selected_emoji>>]
    ELSE [raised |-> FALSE,
          map |-> [reactions_map EXCEPT ![selected_emoji] = {user_id}],
          note |-> <<"Added", selected_emoji>>]

\* lines 301-306: toggle the selected set; reactions_map[selected_emoji]
\* raises KeyError when the map has no such key
ToggleSelected(reactions_map, user_id, selected_emoji) ==
    IF selected_emoji \notin DOMAIN reactions_map
    THEN [raised |-> TRUE, map |-> reactions_map, note |-> <<"KeyError", selected_emoji>>]
    ELSE IF user_id \in reactions_map[selected_emoji]
    THEN [raised |-> FALSE,
          map |-> [reactions_map EXCEPT ![selected_emoji] = @ \ {user_id}],
          note |-> <<"Removed", selected_emoji>>]
    ELSE [raised |-> FALSE,
          map |-> [reactions_map EXCEPT ![selected_emoji] = @ \cup {user_id}],
          note |-> <<"Added", selected_emoji>>]

\* mutant: the recovered VoteSet is created without its symbols
LookupOrRecoverUnseeded(registry, key) ==
    IF key \notin DOMAIN registry THEN [emoji \in {} |-> {}] ELSE registry[key]

\* lines 288-292: the VoteSet of the key, a fresh one when the key is missing
LookupOrRecover(registry, key) ==
    IF key \notin DOMAIN registry THEN EmptyVoteSet ELSE registry[key]

\* lines 245-298: dispatch on query.data, recover a missing VoteSet, then the
\* removal loop; no await on the way of a reaction press
HC_Select(t, user_id, data, chat_id, message_id) ==
    /\ CanRun(t)
    /\ tasks[t].pc = "idle"
    /\ IF data = <<"info">>
       THEN /\ tasks' = [tasks EXCEPT ![t] = [Idle EXCEPT !.pc = "await_info"]]
            /\ running' = Release(t, "await_info")
            /\ UNCHANGED <<post_reactions, created>>
       ELSE IF data[1] # "reaction"
       THEN /\ tasks' = [tasks EXCEPT ![t] = [Idle EXCEPT !.pc = "await_other"]]
            /\ running' = Release(t, "await_other")
            /\ UNCHANGED <<post_reactions, created>>
       ELSE LET selected_emoji == data[2]
                key == PostKey(chat_id, message_id)
                absent == key \notin DOMAIN post_reactions
                reactions_map == LookupOrRecover(post_reactions, key)
            IN /\ post_reactions' =
                     Put(post_reactions, key,
                         RemoveFromOthers(reactions_map, user_id, selected_emoji))
               /\ created' = IF absent THEN [created EXCEPT ![key] = @ + 1] ELSE created
               /\ tasks' = [tasks EXCEPT ![t] =
                     [Idle EXCEPT !.pc = "toggle", !.key = key, !.user = user_id,
                                  !.sel = selected_emoji, !.missing = absent,
                                  !.before = reactions_map]]
               /\ running' = Release(t, "toggle")
    /\ UNCHANGED <<post_meta, processed_media_groups, vote_log, file, boot, reg_log, markup>>

\* lines 301-308: the toggle, then query.answer(notification_text) is awaited
\* (key, user, sel, missing and before stay in the record as history)
ToggleStep(t) ==
    /\ CanRun(t)
    /\ tasks[t].pc = "toggle"
    /\ LET me == tasks[t]
           r == ToggleSelected(post_reactions[me.key], me.user, me.sel)
           pc == IF r.raised THEN "raised" ELSE "await_answer"
       IN /\ post_reactions' = [post_reactions EXCEPT ![me.key] = r.map]
          /\ tasks' = [tasks EXCEPT ![t] = [me EXCEPT !.pc = pc, !.note = r.note]]
          /\ running' = Release(t, pc)
    /\ UNCHANGED <<post_meta, processed_media_groups, created>>

HC_Toggle(t) == ToggleStep(t) /\ UNCHANGED <<vote_log, file, boot, reg_log, markup>>

\* the same step, keeping the log of the last two votes
LogEntry(me, after) ==
    [key |-> me.key, user |-> me.user, sel |-> me.sel, before |-> me.before,
     after |-> after]

HC_ToggleLogged(t) ==
    /\ ToggleStep(t)
    /\ vote_log' =
          LET e == LogEntry(tasks[t], post_reactions'[tasks[t].key])
          IN IF vote_log = <<>> THEN <<e>> ELSE <<vote_log[Len(vote_log)], e>>
    /\ UNCHANGED <<file, boot, reg_log, markup>>

\* lines 311-314: the answer went out; the keyboard is rendered and the edit awaited
HC_Answered(t) ==
    /\ CanRun(t)
    /\ tasks[t].pc = "await_answer"
    /\ tasks' = [tasks EXCEPT ![t] = [Idle EXCEPT !.pc = "await_edit"]]
    /\ running' = Release(t, "await_edit")
    /\ UNCHANGED <<post_reactions, post_meta, processed_media_groups, created, vote_log, file, boot, reg_log, markup>>

\* lines 314-317: the edit returned or raised (caught and logged); lines 252, 257
HC_Return(t) ==
    /\ CanRun(t)
    /\ tasks[t].pc \in {"await_edit", "await_info", "await_other"}
    /\ tasks' = [tasks EXCEPT ![t] = Idle]
    /\ running' = Release(t, "idle")
    /\ UNCHANGED <<post_reactions, post_meta, processed_media_groups, created, vote_log, file, boot, reg_log, markup>>

\* the KeyError of line 301 leaves the handler; the dispatcher logs it
HC_Raised(t) ==
    /\ CanRun(t)
    /\ tasks[t].pc = "raised"
    /\ tasks' = [tasks EXCEPT ![t] = Idle]
    /\ running' = Release(t, "idle")
    /\ UNCHANGED <<post_reactions, post_meta, processed_media_groups, created, vote_log, file, boot, reg_log, markup>>

(***************************************************************************)
(* add_reaction_buttons                                                    *)
(***************************************************************************)
\* processed_media_groups = deque(maxlen=1000)
LedgerCapacity == 1000

MaxEvents == 3

\* mutant: the deque has no maxlen
DequeAppendUnbounded(dq, x) == dq \o <<x>>

\* deque.append on a bounded deque: a full deque drops its oldest entry
DequeAppend(dq, x) ==
    IF Len(dq) >= LedgerCapacity THEN Tail(dq) \o <<x>> ELSE dq \o <<x>>

InDeque(dq, x) == \E i \in 1..Len(dq) : dq[i] = x

\* The update as the handler reads it.  shape: what lines 123-132 see;
\* post_link: the link lines 143-158 build; link: message.link;
\* forwarded: forward_from_chat is a channel; edits_text: line 182 holds and
\* the post has text or a caption, so that line 185/187 awaits
PostUpdates ==
    [shape : {"post"}, chat_id : Chats, message_id : MsgIds,
     media_group_id : {OneMediaGroup, NoMediaGroup}, post_link : PostLinks,
     link : {"msg_link"}, forwarded : BOOLEAN, edits_text : BOOLEAN]

IgnoredUpdates ==
    [shape : {"no_message", "private", "no_content"}, chat_id : Chats,
     message_id : MsgIds, media_group_id : {NoMediaGroup}, post_link : PostLinks,
     link : {"msg_link"}, forwarded : {FALSE}, edits_text : {FALSE}]

\* lines 164-166
CommentUrl(is_channel, link, message_id) ==
    IF ~is_channel /\ link # None THEN <<link, "?thread=", message_id>> ELSE NoUrl

\* mutant: the ledger is not consulted
SeenRecentlyNever(dq, media_group_id) == FALSE

\* lines 135-136: the event has a group id and the ledger holds it
SeenRecently(dq, media_group_id) ==
    media_group_id # NoMediaGroup /\ InDeque(dq, media_group_id)

\* lines 120-208, up to the first await or return
BeginStep(t, u) ==
    /\ CanRun(t)
    /\ tasks[t].pc = "idle"
    /\ LET is_channel == u.chat_id \in ChannelChats
           duplicate == SeenRecently(processed_media_groups, u.media_group_id)
           meta == [share_url |-> u.post_link,
                    comment_url |-> CommentUrl(is_channel, u.link, u.message_id)]
           pc == IF is_channel
                 THEN IF u.edits_text THEN "await_edit_text" ELSE "register"
                 ELSE IF u.forwarded THEN "await_reply" ELSE "idle"
       IN IF u.shape # "post" \/ duplicate
          THEN UNCHANGED <<processed_media_groups, tasks, running>>
          ELSE /\ processed_media_groups' =
                     IF u.media_group_id # NoMediaGroup
                     THEN DequeAppend(processed_media_groups, u.media_group_id)
                     ELSE processed_media_groups
               /\ tasks' = [tasks EXCEPT ![t] =
                     IF pc = "idle" THEN Idle
                     ELSE [Idle EXCEPT !.pc = pc, !.chat = u.chat_id, !.meta = meta,
                             !.key = IF is_channel
                                     THEN PostKey(u.chat_id, u.message_id) ELSE None]]
               /\ running' = Release(t, pc)
    /\ UNCHANGED <<post_reactions, post_meta, created, vote_log, file, boot, markup>>

ARB_Begin(t, u) == BeginStep(t, u) /\ UNCHANGED reg_log

\* the same step, keeping the history of the registration path: the event
\* counted, its group id and whether the ledger held it on arrival, the ids
\* in the order they were last seen and in the order they entered the
\* ledger, and a fresh count of the entries created for an id that enters
WithoutId(seq, x) == SelectSeq(seq, LAMBDA y : y # x)

ARB_BeginLogged(t, u) ==
    /\ reg_log.events < MaxEvents
    /\ BeginStep(t, u)
    /\ LET g == u.media_group_id
           resident == g # NoMediaGroup /\ InDeque(processed_media_groups, g)
           enters == g # NoMediaGroup /\ ~resident
       IN reg_log' =
            [reg_log EXCEPT
               !.events = @ + 1,
               !.last = [group |-> g, resident |-> resident],
               !.group = IF resident THEN @ ELSE g,
               !.recency = IF g = NoMediaGroup THEN @ ELSE WithoutId(@, g) \o <<g>>,
               !.admitted = IF enters THEN @ \o <<g>> ELSE @,
               !.creations = IF enters THEN Put(@, g, 0) ELSE @]

\* lines 185-189: the text edit returned, or raised and was logged
ARB_TextEdited(t) ==
    /\ CanRun(t)
    /\ tasks[t].pc = "await_edit_text"
    /\ tasks' = [tasks EXCEPT ![t].pc = "register"]
    /\ running' = Release(t, "register")
    /\ UNCHANGED <<post_reactions, post_meta, processed_media_groups, created, vote_log, file, boot, reg_log, markup>>

\* lines 201-208, 214-215: the reply was sent (its message id is the target)
\* or it raised, which ends the handler
ARB_Replied(t, ok, reply_id) ==
    /\ CanRun(t)
    /\ tasks[t].pc = "await_reply"
    /\ LET pc == IF ok THEN "register" ELSE "idle"
       IN /\ tasks' = [tasks EXCEPT ![t] =
                IF ok THEN [@ EXCEPT !.pc = pc, !.key = PostKey(tasks[t].chat, reply_id)]
                ELSE Idle]
          /\ running' = Release(t, pc)
    /\ UNCHANGED <<post_reactions, post_meta, processed_media_groups, created, vote_log, file, boot, reg_log, markup>>

\* mutant: the registration does not test for the key
KeyMissingAlways(registry, key) == TRUE

\* line 221
KeyMissing(registry, key) == key \notin DOMAIN registry

\* lines 214-221: the test "key not in post_reactions"
ARB_Check(t) ==
    /\ CanRun(t)
    /\ tasks[t].pc = "register"
    /\ tasks' = [tasks EXCEPT ![t].pc = "create",
                               ![t].missing = KeyMissing(post_reactions, tasks[t].key)]
    /\ running' = Release(t, "create")
    /\ UNCHANGED <<post_reactions, post_meta, processed_media_groups, created, vote_log, file, boot, reg_log, markup>>

\* lines 222-232: the VoteSet of a key found missing, the metadata of every
\* key; a channel post then awaits the markup edit, a group reply is done
StoreStep(t) ==
    /\ CanRun(t)
    /\ tasks[t].pc = "create"
    /\ LET me == tasks[t]
           pc == IF me.chat \in ChannelChats THEN "await_markup" ELSE "idle"
       IN /\ post_reactions' =
                IF me.missing THEN Put(post_reactions, me.key, EmptyVoteSet)
                ELSE post_reactions
          /\ created' = IF me.missing THEN [created EXCEPT ![me.key] = @ + 1] ELSE created
          /\ post_meta' = Put(post_meta, me.key, me.meta)
          /\ tasks' = [tasks EXCEPT ![t] =
                IF pc = "idle" THEN Idle ELSE [Idle EXCEPT !.pc = pc, !.key = me.key]]
          /\ running' = Release(t, pc)
    /\ UNCHANGED <<processed_media_groups, vote_log, file, boot, markup>>

ARB_Store(t) == StoreStep(t) /\ UNCHANGED reg_log

\* the same step, keeping the history: the group of the event is registered,
\* and an entry created by it is counted
ARB_StoreLogged(t) ==
    /\ StoreStep(t)
    /\ LET g == reg_log.group
       IN reg_log' =
            IF g = NoMediaGroup THEN reg_log
            ELSE [reg_log EXCEPT
                    !.registered = @ \cup {g},
                    !.creations = IF tasks[t].missing THEN [@ EXCEPT ![g] = @ + 1] ELSE @]

\* lines 232-238: the markup edit returned, or raised and was logged
ARB_MarkupDone(t) ==
    /\ CanRun(t)
    /\ tasks[t].pc = "await_markup"
    /\ tasks' = [tasks EXCEPT ![t] = Idle]
    /\ running' = Release(t, "idle")
    /\ UNCHANGED <<post_reactions, post_meta, processed_media_groups, created, vote_log, file, boot, reg_log, markup>>

(***************************************************************************)
(* The application handles one update at a time (Application.builder()     *)
(* without concurrent_updates, lines 404-419): one handler task.           *)
(***************************************************************************)
Next ==
    \/ \E t \in DOMAIN tasks, u \in PostUpdates \cup IgnoredUpdates : ARB_Begin(t, u)
    \/ \E t \in DOMAIN tasks : ARB_TextEdited(t)
    \/ \E t \in DOMAIN tasks, ok \in BOOLEAN, reply_id \in MsgIds :
            ARB_Replied(t, ok, reply_id)
    \/ \E t \in DOMAIN tasks : ARB_Check(t)
    \/ \E t \in DOMAIN tasks : ARB_Store(t)
    \/ \E t \in DOMAIN tasks : ARB_MarkupDone(t)
    \/ \E t \in DOMAIN tasks, user_id \in Users, data \in CallbackData,
          chat_id \in Chats, message_id \in MsgIds :
            HC_Select(t, user_id, data, chat_id, message_id)
    \/ \E t \in DOMAIN tasks : HC_Toggle(t)
    \/ \E t \in DOMAIN tasks : HC_Answered(t)
    \/ \E t \in DOMAIN tasks : HC_Return(t)
    \/ \E t \in DOMAIN tasks : HC_Raised(t)

Spec == Init /\ [][Next]_vars

(***************************************************************************)
(* The button presses on the posts of a channel alone, with the log of    *)
(* the last two votes kept.                                                *)
(***************************************************************************)
NextVotes ==
    \/ \E t \in DOMAIN tasks, user_id \in Users, data \in CallbackData,
          chat_id \in ChannelChats, message_id \in MsgIds :
            HC_Select(t, user_id, data, chat_id, message_id)
    \/ \E t \in DOMAIN tasks : HC_ToggleLogged(t)
    \/ \E t \in DOMAIN tasks : HC_Answered(t)
    \/ \E t \in DOMAIN tasks : HC_Return(t)
    \/ \E t \in DOMAIN tasks : HC_Raised(t)

SpecVotes == Init /\ [][NextVotes]_vars

(***************************************************************************)
(* Handlers run concurrently (what concurrent_updates would give): two     *)
(* coroutines on the one event loop, on the posts of a channel.            *)
(***************************************************************************)
ConcurrentTasks == {1, 2}

InitConc ==
    /\ post_reactions = [k \in {} |-> EmptyVoteSet]
    /\ post_meta = [k \in {} |-> None]
    /\ processed_media_groups = <<>>
    /\ tasks = [t \in ConcurrentTasks |-> Idle]
    /\ running = 0
    /\ created = [k \in LiveKeys |-> 0]
    /\ vote_log = <<>>
    /\ file = NoFile
    /\ boot = Booted
    /\ reg_log = NoRegLog
    /\ markup = NoMarkup

ChannelUpdates ==
    {u \in PostUpdates :
        /\ u.chat_id \in ChannelChats
        /\ u.media_group_id = NoMediaGroup
        /\ ~u.forwarded}

NextConc ==
    \/ \E t \in DOMAIN tasks, u \in ChannelUpdates : ARB_Begin(t, u)
    \/ \E t \in DOMAIN tasks : ARB_TextEdited(t)
    \/ \E t \in DOMAIN tasks : ARB_Check(t)
    \/ \E t \in DOMAIN tasks : ARB_Store(t)
    \/ \E t \in DOMAIN tasks : ARB_MarkupDone(t)
    \/ \E t \in DOMAIN tasks, user_id \in Users, data \in CallbackData,
          chat_id \in ChannelChats, message_id \in MsgIds :
            HC_Select(t, user_id, data, chat_id, message_id)
    \/ \E t \in DOMAIN tasks : HC_Toggle(t)
    \/ \E t \in DOMAIN tasks : HC_Answered(t)
    \/ \E t \in DOMAIN tasks : HC_Return(t)
    \/ \E t \in DOMAIN tasks : HC_Raised(t)

SpecConc == InitConc /\ [][NextConc]_vars

(***************************************************************************)
(* The registration path alone, with its history kept: posts and albums of *)
(* a channel and of a group, a bounded number of events.                   *)
(***************************************************************************)
AlbumMsgIds == {1, 2}

AlbumKeys ==
    {PostKey(c, m) : c \in ChannelChats, m \in AlbumMsgIds} \cup LiveKeys

AlbumUpdates(groups) ==
    {u \in [shape : {"post"}, chat_id : Chats, message_id : AlbumMsgIds,
            media_group_id : groups \cup {NoMediaGroup}, post_link : {1},
            link : {"msg_link"}, forwarded : BOOLEAN, edits_text : {FALSE}] :
        /\ u.chat_id \in ChannelChats => ~u.forwarded
        /\ u.chat_id \in GroupChats => u.message_id \in MsgIds}

InitDedup ==
    /\ post_reactions = [k \in {} |-> EmptyVoteSet]
    /\ post_meta = [k \in {} |-> None]
    /\ processed_media_groups = <<>>
    /\ tasks = [t \in {1} |-> Idle]
    /\ running = 0
    /\ created = [k \in AlbumKeys |-> 0]
    /\ vote_log = <<>>
    /\ file = NoFile
    /\ boot = Booted
    /\ reg_log = NoRegLog
    /\ markup = NoMarkup

NextDedup ==
    \/ \E t \in DOMAIN tasks, u \in AlbumUpdates(MediaGroups) : ARB_BeginLogged(t, u)
    \/ \E t \in DOMAIN tasks, ok \in BOOLEAN, reply_id \in MsgIds :
            ARB_Replied(t, ok, reply_id)
    \/ \E t \in DOMAIN tasks : ARB_Check(t)
    \/ \E t \in DOMAIN tasks : ARB_StoreLogged(t)
    \/ \E t \in DOMAIN tasks : ARB_MarkupDone(t)

SpecDedup == InitDedup /\ [][NextDedup]_vars

(***************************************************************************)
(* The same path on a ledger that is full or one short of it, with events  *)
(* that carry its oldest id and ids it has not held.                       *)
(***************************************************************************)
MaxFresh == 2

LedgerGroups == {<<1>>} \cup {<<LedgerCapacity + i>> : i \in 1..MaxFresh}

\* the ledger after albums 1..n went through the registration path
LedgerAfter(n) == [i \in 1..n |-> <<i>>]

InitLedger ==
    /\ post_reactions = [k \in {} |-> EmptyVoteSet]
    /\ post_meta = [k \in {} |-> None]
    /\ \E n \in {LedgerCapacity - 1, LedgerCapacity} :
          /\ processed_media_groups = LedgerAfter(n)
          /\ reg_log = [NoRegLog EXCEPT !.recency = LedgerAfter(n),
                                        !.admitted = LedgerAfter(n)]
    /\ tasks = [t \in {1} |-> Idle]
    /\ running = 0
    /\ created = [k \in AlbumKeys |-> 0]
    /\ vote_log = <<>>
    /\ file = NoFile
    /\ boot = Booted
    /\ markup = NoMarkup

NextLedger ==
    \/ \E t \in DOMAIN tasks, u \in AlbumUpdates(LedgerGroups) : ARB_BeginLogged(t, u)
    \/ \E t \in DOMAIN tasks, ok \in BOOLEAN, reply_id \in MsgIds :
            ARB_Replied(t, ok, reply_id)
    \/ \E t \in DOMAIN tasks : ARB_Check(t)
    \/ \E t \in DOMAIN tasks : ARB_StoreLogged(t)
    \/ \E t \in DOMAIN tasks : ARB_MarkupDone(t)

SpecLedger == InitLedger /\ [][NextLedger]_vars

(***************************************************************************)
(* prune_bot_data, run by main before the persistence is built             *)
(***************************************************************************)
MAX_POSTS_PER_CHAT == 50

\* key.rsplit("_", 1): the parts around the last "_", the key itself if none
RECURSIVE LastIndexOf(_, _)
LastIndexOf(s, ch) ==
    IF s = <<>> THEN 0
    ELSE IF s[Len(s)] = ch THEN Len(s)
    ELSE LastIndexOf(SubSeq(s, 1, Len(s) - 1), ch)

RSplitOnce(key) ==
    LET i == LastIndexOf(key, "_")
    IN IF i = 0 THEN <<key>>
       ELSE <<SubSeq(key, 1, i - 1), SubSeq(key, i + 1, Len(key))>>

IsDigit(c) == \E d \in 1..10 : DigitChars[d] = c

DigitValue(c) == (CHOOSE d \in 1..10 : DigitChars[d] = c) - 1

\* int(s): an optional sign, then digits with single "_" between them;
\* anything else raises ValueError
Unsigned(s) == IF s # <<>> /\ s[1] \in {"-", "+"} THEN Tail(s) ELSE s

IsIntLiteral(s) ==
    LET u == Unsigned(s)
    IN /\ u # <<>>
       /\ IsDigit(u[1])
       /\ IsDigit(u[Len(u)])
       /\ \A i \in 1..Len(u) : IsDigit(u[i]) \/ (u[i] = "_" /\ u[i - 1] # "_")

RECURSIVE DigitsValue(_)
DigitsValue(u) ==
    IF u = <<>> THEN 0
    ELSE LET c == u[Len(u)]
             rest == SubSeq(u, 1, Len(u) - 1)
         IN IF c = "_" THEN DigitsValue(rest) ELSE DigitsValue(rest) * 10 + DigitValue(c)

ParseInt(s) ==
    IF s[1] = "-" THEN 0 - DigitsValue(Unsigned(s)) ELSE DigitsValue(Unsigned(s))

\* lines 346-357: a key that does not parse is skipped
ParseKey(key) ==
    LET parts == RSplitOnce(key)
    IN IF Len(parts) = 2 /\ IsIntLiteral(parts[1]) /\ IsIntLiteral(parts[2])
       THEN [ok |-> TRUE, chat_id |-> ParseInt(parts[1]), msg_id |-> ParseInt(parts[2]),
             key |-> key]
       ELSE [ok |-> FALSE, chat_id |-> 0, msg_id |-> 0, key |-> key]

\* lines 343-357: chat_posts[chat_id], in the order of reactions.keys()
ParsedKeys(order) == [i \in 1..Len(order) |-> ParseKey(order[i])]

ChatPosts(parsed, chat_id) ==
    SelectSeq(parsed, LAMBDA post : post.ok /\ post.chat_id = chat_id)

\* mutant: the posts are sorted by message id ascending
SortAscending(posts) ==
    LET Rank(i) == Cardinality({j \in 1..Len(posts) :
                       \/ posts[j].msg_id < posts[i].msg_id
                       \/ posts[j].msg_id = posts[i].msg_id /\ j < i}) + 1
    IN [r \in 1..Len(posts) |-> posts[CHOOSE i \in 1..Len(posts) : Rank(i) = r]]

\* line 364: posts.sort(key=lambda x: x[0], reverse=True), a stable sort:
\* a post comes behind those with a higher message id and behind those
\* with its own message id that were ahead of it
SortDescending(posts) ==
    LET Rank(i) == Cardinality({j \in 1..Len(posts) :
                       \/ posts[j].msg_id > posts[i].msg_id
                       \/ posts[j].msg_id = posts[i].msg_id /\ j < i}) + 1
    IN [r \in 1..Len(posts) |-> posts[CHOOSE i \in 1..Len(posts) : Rank(i) = r]]

\* lines 359-369: the keys behind the first MAX_POSTS_PER_CHAT of each chat
KeysToRemove(order) ==
    LET parsed == ParsedKeys(order)
        chat_ids == {parsed[i].chat_id : i \in {j \in 1..Len(parsed) : parsed[j].ok}}
    IN UNION {LET posts == SortDescending(ChatPosts(parsed, chat_id))
              IN {posts[i].key : i \in (MAX_POSTS_PER_CHAT + 1)..Len(posts)}
              : chat_id \in chat_ids}

\* lines 371-375: reactions.pop(key, None); meta.pop(key, None)
Restrict(f, keys) == [k \in DOMAIN f \ keys |-> f[k]]

\* mutant: the metadata of a removed key is left behind
PrunedVotesOnly(data, keys) ==
    [kind |-> data.kind,
     order |-> SelectSeq(data.order, LAMBDA k : k \notin keys),
     reactions |-> Restrict(data.reactions, keys),
     meta |-> data.meta]

Pruned(data, keys) ==
    [kind |-> data.kind,
     order |-> SelectSeq(data.order, LAMBDA k : k \notin keys),
     reactions |-> Restrict(data.reactions, keys),
     meta |-> Restrict(data.meta, keys)]

\* the pickled {"bot_data": {}} of a bot that stored nothing yet
EmptyBotData == FileOf("empty")

IsSnapshot(f) == f.kind = "data"

\* lines 320-384.  io is what the storage does: "ok", "read_error" (open or
\* pickle.load raises), "open_error" (open for writing raises and leaves the
\* file), "dump_error" (pickle.dump raises after open truncated the file)
PruneBotData(io) ==
    /\ boot.pc = "boot"
    /\ IF file = NoFile
       THEN /\ file' = file
            /\ boot' = [boot EXCEPT !.pc = "done", !.io = "none"]
       ELSE IF io = "read_error" \/ file = Corrupt
       THEN /\ file' = file
            /\ boot' = [boot EXCEPT !.pc = "done", !.io = "read_error"]
       ELSE IF file = EmptyBotData
       THEN /\ file' = file
            /\ boot' = [boot EXCEPT !.pc = "done", !.io = "none"]
       ELSE LET keys_to_remove == KeysToRemove(file.order)
            IN IF keys_to_remove = {}
               THEN /\ file' = file
                    /\ boot' = [boot EXCEPT !.pc = "done", !.io = "none"]
               ELSE /\ file' = CASE io = "ok" -> Pruned(file, keys_to_remove)
                                  [] io = "open_error" -> file
                                  [] io = "dump_error" -> Corrupt
                    /\ boot' = [boot EXCEPT !.pc = "done", !.io = io]
    /\ UNCHANGED <<post_reactions, post_meta, processed_media_groups, tasks, running,
                   created, vote_log, reg_log, markup>>

(***************************************************************************)
(* The snapshots the pruning starts from: a channel with about             *)
(* MAX_POSTS_PER_CHAT posts and a group with a few, stored in some order.  *)
(***************************************************************************)
MaxExtra == 2

MaxSkip == 2

MaxSmall == 2

\* the message ids of the big chat: 1..count, or 1..count+1 without skip
BigIds(count, skip) ==
    IF skip = 0 THEN [i \in 1..count |-> i]
    ELSE [i \in 1..count |-> IF i < skip THEN i ELSE i + 1]

Reverse(seq) == [i \in 1..Len(seq) |-> seq[Len(seq) + 1 - i]]

Rotate(seq) ==
    LET h == Len(seq) \div 2
    IN SubSeq(seq, h + 1, Len(seq)) \o SubSeq(seq, 1, h)

\* the (chat, message) pairs of a snapshot in the order they were stored
StoredIds(count, skip, small, arrangement) ==
    LET big == BigIds(count, skip)
        all == [i \in 1..small |-> <<CHOOSE c \in GroupChats : TRUE, i>>]
               \o [i \in 1..count |-> <<CHOOSE c \in ChannelChats : TRUE, big[i]>>]
    IN CASE arrangement = "ascending" -> all
         [] arrangement = "descending" -> Reverse(all)
         [] arrangement = "rotated" -> Rotate(all)

\* what the bot had stored for a post: votes and metadata that vary with
\* the message id; a post created by the vote fallback has no metadata
StoredVotes(message_id) ==
    [EmptyVoteSet EXCEPT ![REACTIONS[(message_id % Len(REACTIONS)) + 1]] =
        IF message_id % 3 = 0 THEN {} ELSE Users]

HasStoredMeta(message_id) == message_id % 4 # 0

StoredMeta(message_id) ==
    [share_url |-> (message_id % NumLinks) + 1, comment_url |-> NoUrl]

SnapshotOf(ids) ==
    LET order == [i \in 1..Len(ids) |-> PostKey(ids[i][1], ids[i][2])]
        IdOf(k) == ids[CHOOSE i \in 1..Len(ids) : order[i] = k]
        keys == {order[i] : i \in 1..Len(ids)}
    IN [kind |-> "data",
        order |-> order,
        reactions |-> [k \in keys |-> StoredVotes(IdOf(k)[2])],
        meta |-> [k \in {x \in keys : HasStoredMeta(IdOf(x)[2])} |->
                    StoredMeta(IdOf(k)[2])]]

InitPrune ==
    /\ post_reactions = [k \in {} |-> EmptyVoteSet]
    /\ post_meta = [k \in {} |-> None]
    /\ processed_media_groups = <<>>
    /\ tasks = [t \in {1} |-> Idle]
    /\ running = 0
    /\ created = [k \in LiveKeys |-> 0]
    /\ vote_log = <<>>
    /\ reg_log = NoRegLog
    /\ markup = NoMarkup
    /\ \/ /\ file \in {NoFile, Corrupt, EmptyBotData}
          /\ boot = [pc |-> "boot", io |-> "none", before |-> file, ids |-> <<>>]
       \/ \E count \in (MAX_POSTS_PER_CHAT - 1)..(MAX_POSTS_PER_CHAT + MaxExtra),
             skip \in 0..MaxSkip, small \in 0..MaxSmall,
             arrangement \in {"ascending", "descending", "rotated"} :
               LET ids == StoredIds(count, skip, small, arrangement)
               IN /\ file = SnapshotOf(ids)
                  /\ boot = [pc |-> "boot", io |-> "none", before |-> file, ids |-> ids]

NextPrune ==
    \E io \in {"ok", "read_error", "open_error", "dump_error"} : PruneBotData(io)

SpecPrune == InitPrune /\ [][NextPrune]_vars

(***************************************************************************)
(* main from line 397 on: the pruning, then the persistence and the        *)
(* handlers, then run_polling, whose start-up loads bot_data.pickle        *)
(* through PicklePersistence; the handlers run on what was loaded.         *)
(***************************************************************************)
\* lines 399-416: the health thread, the persistence object (which does not
\* read the file yet), the application and its three handlers
BuildApplication ==
    /\ boot.pc = "done"
    /\ boot' = [boot EXCEPT !.pc = "built"]
    /\ UNCHANGED <<post_reactions, post_meta, processed_media_groups, tasks, running,
                   created, vote_log, file, reg_log, markup>>

\* lines 419-423: run_polling initializes the application, which takes
\* bot_data from the file: nothing when there is no file, the stored maps
\* otherwise; PicklePersistence raises for a file that does not unpickle,
\* and the except of line 420 ends the process with os._exit(1)
StartPolling ==
    /\ boot.pc = "built"
    /\ IF file.kind = "corrupt"
       THEN /\ boot' = [boot EXCEPT !.pc = "exited"]
            /\ UNCHANGED <<post_reactions, post_meta>>
       ELSE /\ boot' = [boot EXCEPT !.pc = "polling"]
            /\ post_reactions' = file.reactions
            /\ post_meta' = file.meta
    /\ UNCHANGED <<processed_media_groups, tasks, running, created, vote_log, file,
                   reg_log, markup>>

\* what is on disk when the bot starts: nothing, a file that does not
\* unpickle, a bot that stored nothing, or a channel at the cap or one
\* over it next to a group with at most one post
InitLife ==
    /\ post_reactions = [k \in {} |-> EmptyVoteSet]
    /\ post_meta = [k \in {} |-> None]
    /\ processed_media_groups = <<>>
    /\ tasks = [t \in {1} |-> Idle]
    /\ running = 0
    /\ created = [k \in LiveKeys |-> 0]
    /\ vote_log = <<>>
    /\ reg_log = NoRegLog
    /\ markup = NoMarkup
    /\ \/ /\ file \in {NoFile, Corrupt, EmptyBotData}
          /\ boot = [pc |-> "boot", io |-> "none", before |-> file, ids |-> <<>>]
       \/ \E count \in {MAX_POSTS_PER_CHAT, MAX_POSTS_PER_CHAT + 1}, small \in {0, 1} :
               LET ids == StoredIds(count, 0, small, "rotated")
               IN /\ file = SnapshotOf(ids)
                  /\ boot = [pc |-> "boot", io |-> "none", before |-> file, ids |-> ids]

NextLife ==
    \/ \E io \in {"ok", "read_error", "open_error", "dump_error"} : PruneBotData(io)
    \/ BuildApplication
    \/ StartPolling
    \/ \E t \in DOMAIN tasks, u \in ChannelUpdates : ARB_Begin(t, u)
    \/ \E t \in DOMAIN tasks : ARB_TextEdited(t)
    \/ \E t \in DOMAIN tasks : ARB_Check(t)
    \/ \E t \in DOMAIN tasks : ARB_Store(t)
    \/ \E t \in DOMAIN tasks : ARB_MarkupDone(t)
    \/ \E t \in DOMAIN tasks, user_id \in Users, data \in CallbackData,
          chat_id \in ChannelChats, message_id \in MsgIds :
            HC_Select(t, user_id, data, chat_id, message_id)
    \/ \E t \in DOMAIN tasks : HC_Toggle(t)
    \/ \E t \in DOMAIN tasks : HC_Answered(t)
    \/ \E t \in DOMAIN tasks : HC_Return(t)
    \/ \E t \in DOMAIN tasks : HC_Raised(t)

SpecLife == InitLife /\ [][NextLife]_vars

(***************************************************************************)
(* get_keyboard.  A dict is its keys in insertion order and its values; a  *)
(* text is the sequence of its parts; a button has a text and either       *)
(* callback data or a url.                                                 *)
(***************************************************************************)
NoData == <<>>

CallbackButton(text, callback_data) ==
    [text |-> text, callback_data |-> callback_data, url |-> NoUrl]

UrlButton(text, url) == [text |-> text, callback_data |-> NoData, url |-> url]

\* line 79: len(reactions_data.get(emoji, []))
VoterCount(reactions_data, emoji) ==
    IF emoji \in DOMAIN reactions_data.sets
    THEN Cardinality(reactions_data.sets[emoji])
    ELSE 0

\* mutant: the count is shown when it is zero, too
ButtonTextAlwaysCounted(emoji, count) == <<emoji, " ">> \o NatStr(count)

\* line 80: f"{emoji} {count}" if count > 0 else emoji
ButtonText(emoji, count) ==
    IF count > 0 THEN <<emoji, " ">> \o NatStr(count) ELSE <<emoji>>

\* lines 77-81
ReactionButtons(reactions_data) ==
    [i \in 1..Len(REACTIONS) |->
        CallbackButton(ButtonText(REACTIONS[i], VoterCount(reactions_data, REACTIONS[i])),
                       <<"reaction", REACTIONS[i]>>)]

\* lines 84-86
TopRow(share_url) ==
    <<CallbackButton(<<"Info">>, <<"info">>)>>
    \o (IF share_url # NoUrl
        THEN <<UrlButton(<<"Share">>, <<"https://t.me/share/url?url=">> \o share_url)>>
        ELSE <<>>)

\* lines 89-94
FinalCommentUrl(share_url, comment_url) ==
    IF comment_url # NoUrl THEN comment_url
    ELSE IF share_url # NoUrl THEN share_url \o <<"?comment=1">>
    ELSE NoUrl

CommentRow(share_url, comment_url) ==
    IF FinalCommentUrl(share_url, comment_url) # NoUrl
    THEN <<UrlButton(<<"Comment">>, FinalCommentUrl(share_url, comment_url))>>
    ELSE <<>>

\* lines 97-103
LinkButtons ==
    <<UrlButton(<<"Support Chat">>, <<"SUPPORT_GROUP_URL">>),
      UrlButton(<<"Join Channel">>, <<"CHANNEL_URL">>)>>

\* lines 105-112
get_keyboard(reactions_data, share_url, comment_url) ==
    <<TopRow(share_url), ReactionButtons(reactions_data)>>
    \o (IF CommentRow(share_url, comment_url) # <<>>
        THEN <<CommentRow(share_url, comment_url)>>
        ELSE <<>>)
    \o <<LinkButtons>>

(***************************************************************************)
(* The calls of get_keyboard: VoteSets whose keys are stored in the order  *)
(* of REACTIONS or another, with symbols missing and a symbol of an        *)
(* earlier list, and the urls that lines 204, 235 and 311 pass.            *)
(***************************************************************************)
MaxCount == 10

VoterSets == {{}, {1}, 1..MaxCount}

KeyOrders ==
    {<<>>,
     REACTIONS,
     [i \in 1..Len(REACTIONS) |-> REACTIONS[Len(REACTIONS) + 1 - i]],
     <<LegacySymbol, REACTIONS[2], REACTIONS[1]>>}

KeyboardData ==
    UNION {[order : {order}, sets : [{order[i] : i \in 1..Len(order)} -> VoterSets]] :
             order \in KeyOrders}

ShareUrls == {NoUrl} \cup {<<"post_link", l>> : l \in PostLinks}

CommentUrls == {NoUrl, CommentUrl(FALSE, "msg_link", 1)}

InitKeyboard ==
    /\ post_reactions = [k \in {} |-> EmptyVoteSet]
    /\ post_meta = [k \in {} |-> None]
    /\ processed_media_groups = <<>>
    /\ tasks = [t \in {1} |-> Idle]
    /\ running = 0
    /\ created = [k \in LiveKeys |-> 0]
    /\ vote_log = <<>>
    /\ file = NoFile
    /\ boot = Booted
    /\ reg_log = NoRegLog
    /\ \E reactions_data \in KeyboardData, share_url \in ShareUrls,
          comment_url \in CommentUrls :
            markup = [called |-> FALSE, reactions_data |-> reactions_data,
                      share_url |-> share_url, comment_url |-> comment_url,
                      rows |-> <<>>]

Render ==
    /\ ~markup.called
    /\ markup' = [markup EXCEPT
                    !.called = TRUE,
                    !.rows = get_keyboard(markup.reactions_data, markup.share_url,
                                          markup.comment_url)]
    /\ UNCHANGED <<post_reactions, post_meta, processed_media_groups, tasks, running,
                   created, vote_log, file, boot, reg_log>>

NextKeyboard == Render

SpecKeyboard == InitKeyboard /\ [][NextKeyboard]_vars

(***************************************************************************)
(* Properties                                                              *)
(***************************************************************************)
SymbolsOf(vote_set, user_id) == {emoji \in DOMAIN vote_set : user_id \in vote_set[emoji]}

HasVotes(vote_set) == \E emoji \in DOMAIN vote_set : vote_set[emoji] # {}

\* a vote whose toggle has just run (it completed, or it raised)
Voted(t) == tasks[t].pc \in {"await_answer", "raised"}

\* C1 (exclusivity): in every reachable state every user id is in at most one
\* symbol's set of every post's VoteSet.
C1_Exclusive ==
    \A key \in DOMAIN post_reactions, user_id \in Users :
        Cardinality(SymbolsOf(post_reactions[key], user_id)) <= 1

\* a user has just switched away from a set that another user is still in
C1_Witness ==
    \E t \in DOMAIN tasks, emoji \in FixedSymbols :
        /\ tasks[t].pc = "await_answer"
        /\ emoji # tasks[t].sel
        /\ tasks[t].user \in tasks[t].before[emoji]
        /\ post_reactions[tasks[t].key][emoji] # {}

\* C2 (switch): a user who has symbol A selected and votes another symbol B
\* of the VoteSet ends absent from A's set and present in B's set, A's set
\* one smaller, B's set one larger, every other user's membership as before.
C2_Switch ==
    \A t \in DOMAIN tasks, A \in FixedSymbols :
        ( /\ Voted(t)
          /\ tasks[t].sel \in DOMAIN tasks[t].before
          /\ A # tasks[t].sel
          /\ tasks[t].user \in tasks[t].before[A] )
        => LET me == tasks[t]
               B == me.sel
               after == post_reactions[me.key]
           IN /\ me.pc = "await_answer"
              /\ me.user \notin after[A]
              /\ me.user \in after[B]
              /\ Cardinality(after[A]) = Cardinality(me.before[A]) - 1
              /\ Cardinality(after[B]) = Cardinality(me.before[B]) + 1
              /\ \A other \in Users \ {me.user}, emoji \in DOMAIN after :
                    other \in after[emoji] <=> other \in me.before[emoji]

\* a switch has completed on a post where the other user holds a vote too
C2_Witness ==
    \E t \in DOMAIN tasks, A \in FixedSymbols :
        /\ tasks[t].pc = "await_answer"
        /\ A # tasks[t].sel
        /\ tasks[t].user \in tasks[t].before[A]
        /\ \E other \in Users \ {tasks[t].user} :
              SymbolsOf(tasks[t].before, other) # {}

\* the steps of a registration that test and create the VoteSet
Registering(t) == tasks[t].pc \in {"register", "create"}

\* C4 (registration never resets): a registration of a key that is present
\* leaves its VoteSet as it was, and a VoteSet that appears for a key that
\* was absent has every fixed symbol mapped to the empty set.
C4_NoReset ==
    [][ \A key \in DOMAIN post_reactions' :
            IF key \in DOMAIN post_reactions
            THEN (\E t \in DOMAIN tasks : Registering(t) /\ tasks[t].key = key)
                    => post_reactions'[key] = post_reactions[key]
            ELSE post_reactions'[key] = EmptyVoteSet ]_vars

\* a registration has just stored a key whose VoteSet holds votes
C4_Witness ==
    \E t \in DOMAIN tasks :
        /\ tasks[t].pc = "await_markup"
        /\ HasVotes(post_reactions[tasks[t].key])

\* C5 (metadata is write-once), as claimed: the metadata stored for a key
\* never changes and never disappears.
C5_MetaWriteOnce ==
    [][ \A key \in DOMAIN post_meta :
            key \in DOMAIN post_meta' /\ post_meta'[key] = post_meta[key] ]_vars

\* C7 (vote on an unknown key): the vote of a fixed symbol on a key that is
\* not in the registry does not raise; the key gets a VoteSet with every
\* fixed symbol empty, the user ends in the selected set and the
\* confirmation is "Added <symbol>".
C7_Recovered ==
    \A t \in DOMAIN tasks :
        LET me == tasks[t] IN
        /\ (me.pc = "toggle" /\ me.missing)
              => me.key \in DOMAIN post_reactions /\ post_reactions[me.key] = EmptyVoteSet
        /\ (Voted(t) /\ me.missing /\ me.sel \in FixedSymbols)
              => /\ me.pc = "await_answer"
                 /\ me.note = <<"Added", me.sel>>
                 /\ post_reactions[me.key] = [EmptyVoteSet EXCEPT ![me.sel] = {me.user}]

\* a vote on a key that was missing has completed
C7_Witness ==
    \E t \in DOMAIN tasks :
        /\ tasks[t].pc = "await_answer"
        /\ tasks[t].missing
        /\ tasks[t].user \in post_reactions[tasks[t].key][tasks[t].sel]

\* C8 (a vote has no error outcome), as claimed: no reaction press ends in
\* an exception instead of a confirmation.
C8_NoVoteAborts ==
    \A t \in DOMAIN tasks : tasks[t].pc # "raised"

\* the last two votes are two presses of one button of one post by one user
SameVoteTwice ==
    /\ Len(vote_log) = 2
    /\ vote_log[1].key = vote_log[2].key
    /\ vote_log[1].user = vote_log[2].user
    /\ vote_log[1].sel = vote_log[2].sel

\* C3 (toggle-off idempotence), as claimed: two consecutive votes of the same
\* (post, user, symbol) leave the user in no set and the VoteSet as it was
\* before the first of them.
C3_TwiceRestoresUnvoted ==
    SameVoteTwice
    => /\ SymbolsOf(vote_log[2].after, vote_log[2].user) = {}
       /\ vote_log[2].after = vote_log[1].before

\* C3 as amended: what two such votes leave depends on where the user was
\* before the first: in no set - the VoteSet is as before and the user is
\* in no set; in the selected set - the VoteSet is as before, the user in
\* the selected set again; in another set - the user is in no set and the
\* VoteSet is the one before without the user.
C3_TwiceByCase ==
    SameVoteTwice
    => LET before == vote_log[1].before
           after == vote_log[2].after
           user_id == vote_log[1].user
           sel == vote_log[1].sel
       IN IF SymbolsOf(before, user_id) = {}
          THEN after = before /\ SymbolsOf(after, user_id) = {}
          ELSE IF SymbolsOf(before, user_id) = {sel}
          THEN after = before
          ELSE /\ SymbolsOf(after, user_id) = {}
               /\ after = [emoji \in DOMAIN before |-> before[emoji] \ {user_id}]

\* a user who was in no set has voted a fixed symbol twice on a post that
\* holds another user's vote
C3_Witness ==
    /\ SameVoteTwice
    /\ vote_log[1].sel \in FixedSymbols
    /\ SymbolsOf(vote_log[1].before, vote_log[1].user) = {}
    /\ HasVotes(vote_log[1].before)
    /\ vote_log[2].after = vote_log[1].before

\* a vote that has run its removal loop and not yet its toggle
MidVote(t) == tasks[t].pc = "toggle"

\* C9 (toggle atomicity): a vote between its removal loop and its toggle
\* holds the event loop, so whenever another handler can run or look no vote
\* is mid-way and no user is in two sets; and the step that follows the
\* removal loop of a vote is the toggle of that same vote.
C9_ToggleAtomic ==
    /\ [](\A t \in DOMAIN tasks : MidVote(t) => running = t)
    /\ [](running = 0 => C1_Exclusive /\ \A t \in DOMAIN tasks : ~MidVote(t))
    /\ [][ \A t \in DOMAIN tasks : MidVote(t) => ~MidVote(t)' ]_vars

\* a user is mid-switch (taken out of one set, not yet in the other) while
\* another vote on the same post waits at an await
C9_Witness ==
    \E t \in DOMAIN tasks, other \in DOMAIN tasks, emoji \in FixedSymbols :
        /\ MidVote(t)
        /\ emoji # tasks[t].sel
        /\ tasks[t].sel \in FixedSymbols
        /\ tasks[t].user \in tasks[t].before[emoji]
        /\ SymbolsOf(post_reactions[tasks[t].key], tasks[t].user) = {}
        /\ tasks[other].pc = "await_answer"
        /\ tasks[other].key = tasks[t].key

\* the step is one of user_id's own vote on key
VoteStepOf(key, user_id) ==
    \E t \in DOMAIN tasks :
        \/ /\ tasks[t].pc = "idle"
           /\ tasks'[t].pc = "toggle"
           /\ tasks'[t].key = key
           /\ tasks'[t].user = user_id
        \/ /\ tasks[t].pc = "toggle"
           /\ tasks[t].key = key
           /\ tasks[t].user = user_id

\* C10 (registration is atomic per key): however registrations and vote
\* fallbacks of one key interleave at their awaits, at most one VoteSet is
\* ever created for the key, and a recorded vote leaves a VoteSet only by
\* a vote of the same user on that post.
C10_AtomicRegistration ==
    /\ [](\A key \in LiveKeys :
            /\ created[key] <= 1
            /\ key \in DOMAIN post_reactions <=> created[key] = 1)
    /\ [][ \A key \in DOMAIN post_reactions :
            /\ key \in DOMAIN post_reactions'
            /\ \A emoji \in DOMAIN post_reactions[key] :
                  \A user_id \in post_reactions[key][emoji] :
                      \/ /\ emoji \in DOMAIN post_reactions'[key]
                         /\ user_id \in post_reactions'[key][emoji]
                      \/ VoteStepOf(key, user_id) ]_vars

\* two registrations of one key are in flight, one about to store after
\* its test, the other one done, and the key already holds a vote
C10_Witness ==
    \E t \in DOMAIN tasks, other \in DOMAIN tasks :
        /\ tasks[t].pc = "create"
        /\ tasks[other].pc = "await_markup"
        /\ tasks[other].key = tasks[t].key
        /\ HasVotes(post_reactions[tasks[t].key])

\* the pruning ran to its end without a storage error
PrunedWithoutError == boot.pc = "done" /\ boot.io \in {"ok", "none"} /\ IsSnapshot(boot.before)

StoredIdSet == {boot.ids[i] : i \in 1..Len(boot.ids)}

\* the number of stored posts of the chat with a higher message id
NewerPosts(id) ==
    Cardinality({other \in StoredIdSet : other[1] = id[1] /\ other[2] > id[2]})

\* C6 (pruning): after a pruning that met no storage error, the keys of each
\* chat that remain are those of its MAX_POSTS_PER_CHAT highest message ids
\* (all of them when the chat has no more), whatever the stored order; a
\* removed key is gone from the votes and from the metadata; the VoteSet
\* and metadata of a kept key are as they were.
C6_PruneKeepsNewest ==
    PrunedWithoutError
    => /\ IsSnapshot(file)
       /\ DOMAIN file.reactions \subseteq DOMAIN boot.before.reactions
       /\ DOMAIN file.meta \subseteq DOMAIN boot.before.meta
       /\ \A id \in StoredIdSet :
            LET key == PostKey(id[1], id[2])
            IN IF NewerPosts(id) < MAX_POSTS_PER_CHAT
               THEN /\ key \in DOMAIN file.reactions
                    /\ file.reactions[key] = boot.before.reactions[key]
                    /\ key \in DOMAIN file.meta <=> key \in DOMAIN boot.before.meta
                    /\ key \in DOMAIN file.meta
                          => file.meta[key] = boot.before.meta[key]
               ELSE /\ key \notin DOMAIN file.reactions
                    /\ key \notin DOMAIN file.meta

\* a chat over the cap, stored neither ascending nor descending, lost its
\* oldest posts (with votes and metadata) while the small chat kept its own
C6_Witness ==
    /\ PrunedWithoutError
    /\ boot.io = "ok"
    /\ IsSnapshot(file)
    /\ Cardinality(DOMAIN boot.before.reactions \ DOMAIN file.reactions) >= 2
    /\ Cardinality(DOMAIN boot.before.meta \ DOMAIN file.meta) >= 1
    /\ \E i, j \in 1..Len(boot.ids) :
          /\ i + 1 < j
          /\ boot.ids[i][1] = boot.ids[j][1]
          /\ boot.ids[i + 1][1] = boot.ids[j][1]
          /\ boot.ids[i][2] < boot.ids[i + 1][2]
          /\ boot.ids[j][2] < boot.ids[i][2]
    /\ \E id \in StoredIdSet :
          id[1] \in GroupChats /\ PostKey(id[1], id[2]) \in DOMAIN file.reactions

\* a registration event arrived in this step
EventArrived == reg_log'.events # reg_log.events

\* C11 (dedup suppression): an event whose group id the ledger holds leaves
\* the registry, the metadata and the ledger as they are and ends at once;
\* and of the events that carry an id since it entered the ledger, at most
\* one has created a registry entry.
C11_Suppressed ==
    /\ [][ EventArrived /\ reg_log'.last.resident
            => /\ UNCHANGED <<post_reactions, post_meta, processed_media_groups>>
               /\ \A t \in DOMAIN tasks : tasks'[t].pc = "idle" ]_vars
    /\ [](\A g \in DOMAIN reg_log.creations : reg_log.creations[g] <= 1)

\* a second part of an album that has its entry was turned away
C11_Witness ==
    /\ reg_log.last.resident
    /\ reg_log.creations[reg_log.last.group] = 1
    /\ reg_log.last.group \in reg_log.registered
    /\ \A t \in DOMAIN tasks : tasks[t].pc = "idle"

\* the ids the ledger holds
Resident == {processed_media_groups[i] : i \in 1..Len(processed_media_groups)}

\* the event that carried the id is still on its way to the registry
OnItsWay(g) == reg_log.group = g /\ \E t \in DOMAIN tasks : tasks[t].pc # "idle"

\* C19 (marking implies registration): an id the ledger holds belongs to an
\* event that registered its post, or that is on its way to.
C19_MarkedImpliesRegistered ==
    \A g \in Resident : g \in reg_log.registered \/ OnItsWay(g)

LastK(seq) ==
    IF Len(seq) <= LedgerCapacity THEN seq
    ELSE SubSeq(seq, Len(seq) - LedgerCapacity + 1, Len(seq))

\* as many distinct entries as entries
NoDuplicates(seq) == Cardinality({seq[i] : i \in 1..Len(seq)}) = Len(seq)

\* the ledger changes only by an append at its end, dropping its oldest
\* entry when, and only when, it was full
AppendsAtEnd ==
    \/ processed_media_groups' = processed_media_groups
    \/ /\ Len(processed_media_groups) < LedgerCapacity
       /\ SubSeq(processed_media_groups', 1, Len(processed_media_groups)) =
             processed_media_groups
       /\ Len(processed_media_groups') = Len(processed_media_groups) + 1
    \/ /\ Len(processed_media_groups) = LedgerCapacity
       /\ SubSeq(processed_media_groups', 1, LedgerCapacity - 1) =
             Tail(processed_media_groups)
       /\ Len(processed_media_groups') = LedgerCapacity

\* C12 as stated (ledger content): no duplicates, at most LedgerCapacity
\* entries, and the entries are the LedgerCapacity distinct ids that the
\* registration path has seen most recently.
C12_MostRecentlySeen ==
    /\ NoDuplicates(processed_media_groups)
    /\ Len(processed_media_groups) <= LedgerCapacity
    /\ Resident = {LastK(reg_log.recency)[i] : i \in 1..Len(LastK(reg_log.recency))}

\* C12 (ledger content): no duplicates, at most LedgerCapacity entries, and
\* the entries are, in order, the LedgerCapacity ids that entered the ledger
\* last (an id enters when an event carries it while the ledger does not
\* hold it); the ledger changes only by an append that drops the oldest
\* entry of a full ledger.
C12_MostRecentlyEntered ==
    /\ [](/\ NoDuplicates(processed_media_groups)
          /\ Len(processed_media_groups) <= LedgerCapacity
          /\ processed_media_groups = LastK(reg_log.admitted))
    /\ [][AppendsAtEnd]_vars

\* the oldest id was seen again while the ledger was full, and the next new
\* id evicted it all the same
C12_Witness ==
    /\ Len(processed_media_groups) = LedgerCapacity
    /\ Len(reg_log.admitted) > LedgerCapacity
    /\ reg_log.admitted[1] \notin Resident
    /\ \E i \in 1..Len(reg_log.recency) :
          /\ reg_log.recency[i] = reg_log.admitted[1]
          /\ Len(reg_log.recency) - i < LedgerCapacity

\* the rows of the grid that hold a reaction button
ReactionRows ==
    {r \in 1..Len(markup.rows) :
        \E b \in 1..Len(markup.rows[r]) :
            /\ markup.rows[r][b].callback_data # NoData
            /\ markup.rows[r][b].callback_data[1] = "reaction"}

\* the voters of a symbol in the VoteSet handed to get_keyboard
VotersShown(emoji) ==
    IF emoji \in DOMAIN markup.reactions_data.sets
    THEN markup.reactions_data.sets[emoji]
    ELSE {}

\* the label of a symbol: the symbol alone, or the symbol, a blank and the
\* decimal digits of the number of its voters
IsLabelOf(text, emoji) ==
    IF VotersShown(emoji) = {}
    THEN text = <<emoji>>
    ELSE /\ Len(text) >= 3
         /\ text[1] = emoji
         /\ text[2] = " "
         /\ IsIntLiteral(SubSeq(text, 3, Len(text)))
         /\ \A i \in 3..Len(text) : IsDigit(text[i])
         /\ text[3] # "0"
         /\ ParseInt(SubSeq(text, 3, Len(text))) = Cardinality(VotersShown(emoji))

\* C13 (label rendering): the grid has one row of reaction buttons, one
\* button per symbol of REACTIONS and in its order whatever the order of
\* the VoteSet's keys, labelled with the symbol alone when its set is empty
\* or missing and with the symbol and the size of its set otherwise; a
\* symbol outside REACTIONS has no button.
C13_Labels ==
    markup.called
    => /\ Cardinality(ReactionRows) = 1
       /\ \A r \in ReactionRows :
            /\ Len(markup.rows[r]) = Len(REACTIONS)
            /\ \A i \in 1..Len(REACTIONS) :
                  /\ markup.rows[r][i].callback_data = <<"reaction", REACTIONS[i]>>
                  /\ IsLabelOf(markup.rows[r][i].text, REACTIONS[i])

\* a VoteSet stored in another order than REACTIONS, with a symbol missing,
\* a symbol outside REACTIONS, and a set of ten or more voters, was rendered
C13_Witness ==
    /\ markup.called
    /\ markup.reactions_data.order # <<>>
    /\ markup.reactions_data.order[1] = LegacySymbol
    /\ markup.reactions_data.sets[LegacySymbol] # {}
    /\ REACTIONS[3] \notin DOMAIN markup.reactions_data.sets
    /\ Cardinality(markup.reactions_data.sets[REACTIONS[1]]) >= 10
    /\ markup.reactions_data.sets[REACTIONS[2]] = {}

\* C17 (grid layout): the row of reaction buttons is the first row of the
\* grid, and the rows of static buttons follow it.
C17_ReactionRowFirst ==
    markup.called => ReactionRows = {1}

\* C14 (a prune failure does not abort startup): a start on a snapshot
\* that unpickles does not end in the exit of line 423, whatever storage
\* error the pruning meets.
C14_PruneFailureNoExit ==
    IsSnapshot(boot.before) => boot.pc # "exited"

\* C18 (a failed prune leaves the snapshot intact): once prune_bot_data has
\* returned, the file is the one it found, or the snapshot it wrote without
\* an error.
C18_SnapshotIntact ==
    boot.pc # "boot" => file = boot.before \/ (boot.io = "ok" /\ IsSnapshot(file))

\* C20 (metadata never outlives its VoteSet): in memory and on disk, every
\* key of the metadata map is a key of the vote map.
C20_MetaWithinVotes ==
    /\ DOMAIN post_meta \subseteq DOMAIN post_reactions
    /\ DOMAIN file.meta \subseteq DOMAIN file.reactions

\* the bot runs on a snapshot that was pruned: the post that lost its entry
\* is registered again and has a vote, kept posts have their metadata, and
\* a kept post never had any
C20_Witness ==
    /\ boot.pc = "polling"
    /\ boot.io = "ok"
    /\ DOMAIN boot.before.meta \ DOMAIN file.meta # {}
    /\ \E key \in LiveKeys :
          /\ key \notin DOMAIN file.reactions
          /\ key \in DOMAIN post_meta
          /\ HasVotes(post_reactions[key])
    /\ DOMAIN post_reactions \ DOMAIN post_meta # {}
    /\ DOMAIN file.meta \cap DOMAIN post_meta # {}

\* C15 (confirmation text): the text a vote is about to confirm with names
\* the selected symbol, and it is "Removed" exactly when the voter is now
\* in no set of the post, "Added" exactly when the voter is now in the
\* selected set.
C15_TextMatchesOutcome ==
    \A t \in DOMAIN tasks :
        tasks[t].pc = "await_answer"
        => LET me == tasks[t]
               after == post_reactions[me.key]
           IN /\ me.note \in {<<"Removed", me.sel>>, <<"Added", me.sel>>}
              /\ me.note[1] = "Removed" <=> SymbolsOf(after, me.user) = {}
              /\ me.note[1] = "Added" <=> me.user \in after[me.sel]

\* a vote was taken back on a post that holds another vote
C15_Witness ==
    \E t \in DOMAIN tasks :
        /\ tasks[t].pc = "await_answer"
        /\ tasks[t].note[1] = "Removed"
        /\ tasks[t].user \in tasks[t].before[tasks[t].sel]
        /\ HasVotes(post_reactions[tasks[t].key])

\* the step is the removal loop or the toggle of a vote of task t
VotePart(t) ==
    \/ tasks[t].pc = "idle" /\ tasks'[t].pc = "toggle"
    \/ tasks[t].pc = "toggle"

\* the step is another step of handle_callback of task t
QuietPart(t) ==
    \/ tasks[t].pc = "idle" /\ tasks'[t].pc \in {"await_info", "await_other"}
    \/ /\ tasks[t].pc \in {"await_info", "await_other", "await_answer", "await_edit",
                            "raised"}
       /\ tasks'[t] # tasks[t]

\* what the step keeps of the registry, for a vote of user_id on key
TouchesOnly(key, user_id) ==
    /\ post_meta' = post_meta
    /\ DOMAIN post_reactions' = DOMAIN post_reactions \cup {key}
    /\ \A k \in DOMAIN post_reactions : k # key => post_reactions'[k] = post_reactions[k]
    /\ LET old == LookupOrRecover(post_reactions, key)
       IN /\ DOMAIN post_reactions'[key] = DOMAIN old
          /\ \A emoji \in DOMAIN old :
                post_reactions'[key][emoji] \ {user_id} = old[emoji] \ {user_id}

\* C16 (votes touch their own post only): a step of a vote removes no key
\* from either map, leaves the metadata and the VoteSets of the other keys
\* as they are, and changes in its own VoteSet the membership of the
\* voter alone; the other steps of handle_callback, the info press and the
\* non-reaction press among them, leave both maps as they are.
C16_VotesTouchOwnPost ==
    [][ \A t \in DOMAIN tasks :
          /\ VotePart(t)
                => IF tasks[t].pc = "idle"
                   THEN TouchesOnly(tasks'[t].key, tasks'[t].user)
                   ELSE TouchesOnly(tasks[t].key, tasks[t].user)
          /\ QuietPart(t) => UNCHANGED <<post_reactions, post_meta>> ]_vars

\* a vote was added to a set that holds another user's vote, on a post with
\* metadata, while another post holds votes and metadata
C16_Witness ==
    \E t \in DOMAIN tasks :
        /\ tasks[t].pc = "await_answer"
        /\ tasks[t].note[1] = "Added"
        /\ post_reactions[tasks[t].key][tasks[t].sel] \ {tasks[t].user} # {}
        /\ tasks[t].key \in DOMAIN post_meta
        /\ \E k \in DOMAIN post_meta : k # tasks[t].key /\ HasVotes(post_reactions[k])

====
